---- MODULE Spec2Model ----
(***************************************************************************)
(* Model of BuildResidualDecoder (Modules/Utils/BuildResidualDecoder.py):  *)
(* the constructor that assembles the list of operations, and forward.     *)
(* Tensors are modelled by their shapes (sequences of positive integers),  *)
(* stages by records of their hyper-parameters.                            *)
(***************************************************************************)
EXTENDS Integers, Sequences, FiniteSets, TLC

(* ---- bounds of the explored configurations ---- *)
MaxSide ==
  8
MaxLayers ==
  2
MaxResBlocks ==
  2
MaxBatch ==
  2

LatentDims ==
  {2, 8}
Channels ==
  {1, 4}
LayerWidths ==
  {16, 32}
Sides ==
  1..MaxSide

(* widths tried with a height: equal, one more, double and half *)
WidthsFor(h) ==
  {w \in Sides : w = h \/ w = h + 1 \/ w = 2 * h \/ 2 * w = h}

RECURSIVE SeqsUpTo(_, _)
SeqsUpTo(S, n) ==
  IF n = 0 THEN {<<>>}
  ELSE LET shorter == SeqsUpTo(S, n - 1)
       IN  shorter \cup {Append(s, x) : s \in {t \in shorter : Len(t) = n - 1}, x \in S}

(* the arguments of __init__ *)
Configs ==
  [latent_dim : LatentDims,
   init_shape : UNION {{<<c, h, w>> : c \in Channels, w \in WidthsFor(h)} : h \in Sides},
   layers : SeqsUpTo(LayerWidths, MaxLayers),
   num_res_blocks : 0..MaxResBlocks,
   use_batchnorm : BOOLEAN,
   use_preactivations : BOOLEAN]

(* ---- arithmetic helpers ---- *)
RECURSIVE Pow2(_)
Pow2(n) ==
  IF n = 0 THEN 1 ELSE 2 * Pow2(n - 1)

RECURSIVE Prod(_)
Prod(s) ==
  IF s = <<>> THEN 1 ELSE Head(s) * Prod(Tail(s))

(* ---- stages: one record shape for every kind of operation ---- *)
Conv2d(in_channels, out_channels, kernel_size, stride, padding) ==
  [type |-> "Conv2d", in_channels |-> in_channels, out_channels |-> out_channels,
   kernel_size |-> kernel_size, stride |-> stride, padding |-> padding,
   features |-> 0, use_batchnorm |-> FALSE, use_preactivation |-> FALSE]

BatchNorm2d(num_features) ==
  [type |-> "BatchNorm2d", in_channels |-> 0, out_channels |-> 0,
   kernel_size |-> 0, stride |-> 0, padding |-> 0,
   features |-> num_features, use_batchnorm |-> FALSE, use_preactivation |-> FALSE]

Activation ==
  [type |-> "Activation", in_channels |-> 0, out_channels |-> 0,
   kernel_size |-> 0, stride |-> 0, padding |-> 0,
   features |-> 0, use_batchnorm |-> FALSE, use_preactivation |-> FALSE]

ResidualBlock(features, use_batchnorm, use_preactivation) ==
  [type |-> "ResidualBlock", in_channels |-> 0, out_channels |-> 0,
   kernel_size |-> 0, stride |-> 0, padding |-> 0,
   features |-> features, use_batchnorm |-> use_batchnorm,
   use_preactivation |-> use_preactivation]

Linear(in_features, out_features) ==
  [in_features |-> in_features, out_features |-> out_features, bias |-> TRUE]

(* ---- the pieces of __init__ ---- *)

(* variant: the second normalization left out *)
PreprocessOpsMut(s) ==
  <<Conv2d(s.input_channels, s.layers[1], 3, 1, 1)>>
  \o (IF s.use_batchnorm THEN <<BatchNorm2d(s.layers[1])>> ELSE <<>>)
  \o <<Activation>>
  \o <<Conv2d(s.layers[1], s.layers[1], 3, 1, 1)>>
  \o <<Activation>>

(* lines 57-74: the preprocessing stage, given self *)
PreprocessOps(s) ==
  <<Conv2d(s.input_channels, s.layers[1], 3, 1, 1)>>
  \o (IF s.use_batchnorm THEN <<BatchNorm2d(s.layers[1])>> ELSE <<>>)
  \o <<Activation>>
  \o <<Conv2d(s.layers[1], s.layers[1], 3, 1, 1)>>
  \o (IF s.use_batchnorm THEN <<BatchNorm2d(s.layers[1])>> ELSE <<>>)
  \o <<Activation>>

(* variant: the preprocessing kernel reused for downsampling *)
DownsampleConvMut(input_channels, layer) ==
  Conv2d(input_channels, layer, 3, 2, 1)

(* lines 81-86: the downsampling convolution of one stage *)
DownsampleConv(input_channels, layer) ==
  Conv2d(input_channels, layer, 2, 2, 0)

(* variant: the book keeping update forgotten *)
BookKeepingMut(input_channels, layer) ==
  input_channels

(* line 99 *)
BookKeeping(input_channels, layer) ==
  layer

(* variant: one halving too few *)
FinalKernelMut(height, nlayers) ==
  height \div Pow2(nlayers - 1)

(* line 105: int(init_shape[1] / 2**len(layers)); height and 2**n are      *)
(* positive, so int() of the float quotient is the floor of the quotient   *)
FinalKernel(height, nlayers) ==
  height \div Pow2(nlayers)

(* lines 102-107 *)
FinalConv(s) ==
  Conv2d(s.input_channels, s.latent_dim, FinalKernel(s.init_shape[2], Len(s.layers)), 1, 0)

(* lines 89-96: the residual blocks of one stage *)
RECURSIVE ResBlocks(_, _, _)
ResBlocks(s, layer, count) ==
  IF count = 0 THEN <<>>
  ELSE <<ResidualBlock(layer, s.use_batchnorm, s.use_preactivations)>>
       \o ResBlocks(s, layer, count - 1)

(* lines 78-107: the stage loop from stage k on, then the final convolution *)
RECURSIVE StagesFrom(_, _)
StagesFrom(s, k) ==
  IF k > Len(s.layers) THEN <<FinalConv(s)>>
  ELSE <<DownsampleConv(s.input_channels, s.layers[k])>>
       \o ResBlocks(s, s.layers[k], s.num_res_blocks)
       \o StagesFrom([s EXCEPT !.input_channels = BookKeeping(s.input_channels, s.layers[k])],
                     k + 1)

(* lines 37-110 as a function of the arguments: the list handed to         *)
(* nn.Sequential (defined for non-empty layers)                            *)
Assemble(a) ==
  LET s0 == [latent_dim |-> a.latent_dim, init_shape |-> a.init_shape,
             input_channels |-> a.init_shape[1], layers |-> a.layers,
             num_res_blocks |-> a.num_res_blocks, use_batchnorm |-> a.use_batchnorm,
             use_preactivations |-> a.use_preactivations]
  IN  PreprocessOps(s0) \o StagesFrom([s0 EXCEPT !.input_channels = a.layers[1]], 1)

(* ---- shapes through the stages (what forward computes, shapes only) ---- *)

(* output length of a convolution along one spatial axis; 0 when the      *)
(* library rejects the sizes (kernel larger than the padded input, or a    *)
(* kernel of size 0)                                                       *)
ConvOut(n, k, s, p) ==
  IF k < 1 \/ n + 2 * p < k THEN 0 ELSE ((n + 2 * p - k) \div s) + 1

(* a residual block returns a tensor of the shape it was given *)
ResidualBlockOut(op, x) ==
  IF x[Len(x) - 2] = op.features THEN x ELSE <<>>

(* shape after one stage of self.model; <<>> stands for a raised error.    *)
(* unbatched: whether the installed tensor library accepts a 3-D (C,H,W)   *)
(* input to Conv2d; BatchNorm2d accepts 4-D input only                     *)
StageOut(op, x, unbatched) ==
  IF op.type = "Conv2d" THEN
    IF Len(x) = 4 \/ (Len(x) = 3 /\ unbatched) THEN
      LET n  == Len(x)
          ho == ConvOut(x[n - 1], op.kernel_size, op.stride, op.padding)
          wo == ConvOut(x[n], op.kernel_size, op.stride, op.padding)
      IN  IF x[n - 2] # op.in_channels \/ ho < 1 \/ wo < 1 THEN <<>>
          ELSE SubSeq(x, 1, n - 3) \o <<op.out_channels, ho, wo>>
    ELSE <<>>
  ELSE IF op.type = "BatchNorm2d" THEN
    IF Len(x) = 4 /\ x[2] = op.features THEN x ELSE <<>>
  ELSE IF op.type = "ResidualBlock" THEN
    IF Len(x) \in {3, 4} THEN ResidualBlockOut(op, x) ELSE <<>>
  ELSE x

(* nn.Sequential: the shapes after each stage, stopping after the first    *)
(* stage that raises (whose entry is <<>>)                                 *)
RECURSIVE Trace(_, _, _)
Trace(ops, x, unbatched) ==
  IF ops = <<>> THEN <<>>
  ELSE LET y == StageOut(Head(ops), x, unbatched)
       IN  IF y = <<>> THEN << <<>> >> ELSE <<y>> \o Trace(Tail(ops), y, unbatched)

(* variant: a leading batch dimension inferred by the reshape *)
ViewOKMut(numel, shape) ==
  numel % Prod(shape) = 0

(* line 115: tensor.view(shape) needs the same number of elements *)
ViewOK(numel, shape) ==
  numel = Prod(shape)

(* line 118: the first argument of the final view is len(batch), where     *)
(* batch is still the tensor reshaped on line 115                          *)
FlattenRows(input, reshaped) ==
  reshaped[1]

(* lines 112-120 *)
ForwardResult(s, lin, seq, input, unbatched) ==
  LET projected == <<input[1], lin.out_features>>
  IN  IF ~ViewOK(Prod(projected), s.init_shape)
      THEN [status |-> "error", step |-> "view", shape |-> <<>>, ran |-> 0,
            batch |-> input, unbatched |-> unbatched]
      ELSE
        LET reshaped == s.init_shape
            tr       == Trace(seq, reshaped, unbatched)
            last     == tr[Len(tr)]
        IN  IF last = <<>>
            THEN [status |-> "error", step |-> "model", shape |-> <<>>,
                  ran |-> Len(tr) - 1, batch |-> input, unbatched |-> unbatched]
            ELSE
              LET rows == FlattenRows(input, reshaped)
              IN  IF Prod(last) % rows # 0
                  THEN [status |-> "error", step |-> "flatten", shape |-> <<>>,
                        ran |-> Len(tr), batch |-> input, unbatched |-> unbatched]
                  ELSE [status |-> "ok", step |-> "return",
                        shape |-> <<rows, Prod(last) \div rows>>,
                        ran |-> Len(tr), batch |-> input, unbatched |-> unbatched]

(* learnable tensors a stage registers (shapes); residual blocks own theirs *)
ParamShapes(op) ==
  IF op.type = "Conv2d"
  THEN << <<op.out_channels, op.in_channels, op.kernel_size, op.kernel_size>>,
          <<op.out_channels>> >>
  ELSE IF op.type = "BatchNorm2d" THEN << <<op.features>>, <<op.features>> >>
  ELSE <<>>

RECURSIVE AllParamShapes(_)
AllParamShapes(ops) ==
  IF ops = <<>> THEN <<>> ELSE ParamShapes(Head(ops)) \o AllParamShapes(Tail(ops))

(* line 102: nn.Conv2d(kernel_size=0) creates an empty weight; depending on *)
(* the installed library its initialisation is a no-op or divides by a     *)
(* fan-in of zero, so both outcomes are possible                           *)
ZeroKernelMayRaise(conv) ==
  conv.kernel_size = 0

(* ---- state ---- *)
VARIABLES
  args,        \* the arguments __init__ was called with
  pc,          \* position in __init__ / "built" / "failed"
  self,        \* the attributes of the instance
  init_linear, \* self.init_linear (<<>> until created)
  operations,  \* the local list `operations`
  model,       \* self.model (<<>> until created)
  i,           \* index of the stage loop (1-based; layer = layers[i])
  j,           \* number of residual blocks appended in the current stage
  error,       \* exception that ended __init__, "" if none
  parameters,  \* shapes of the learnable tensors registered on the instance
  out          \* outcome of the last forward call

vars ==
  <<args, pc, self, init_linear, operations, model, i, j, error, parameters, out>>

Unset ==
  [latent_dim |-> 0, init_shape |-> <<>>, input_channels |-> 0, layers |-> <<>>,
   num_res_blocks |-> 0, use_batchnorm |-> FALSE, use_preactivations |-> FALSE]

NoCall ==
  [status |-> "none", step |-> "", shape |-> <<>>, ran |-> 0, batch |-> <<>>,
   unbatched |-> FALSE]

Init ==
  /\ args \in Configs
  /\ pc = "start"
  /\ self = Unset
  /\ init_linear = <<>>
  /\ operations = <<>>
  /\ model = <<>>
  /\ i = 0
  /\ j = 0
  /\ error = ""
  /\ parameters = <<>>
  /\ out = NoCall

(* lines 37-45 *)
StoreConfig ==
  /\ pc = "start"
  /\ self' = [latent_dim |-> args.latent_dim,
              init_shape |-> args.init_shape,
              input_channels |-> args.init_shape[1],
              layers |-> args.layers,
              num_res_blocks |-> args.num_res_blocks,
              use_batchnorm |-> args.use_batchnorm,
              use_preactivations |-> args.use_preactivations]
  /\ pc' = "linear"
  /\ UNCHANGED <<args, init_linear, operations, model, i, j, error, parameters, out>>

(* lines 48-54 *)
BuildLinear ==
  /\ pc = "linear"
  /\ init_linear' = <<Linear(self.latent_dim, Prod(self.init_shape))>>
  /\ parameters' = << <<Prod(self.init_shape), self.latent_dim>>, <<Prod(self.init_shape)>> >>
  /\ operations' = <<>>
  /\ pc' = "preprocess"
  /\ UNCHANGED <<args, self, model, i, j, error, out>>

(* lines 56-75; self.layers[0] raises IndexError on an empty list, before  *)
(* the first Conv2d is created                                             *)
Preprocess ==
  /\ pc = "preprocess"
  /\ IF Len(self.layers) = 0
     THEN /\ pc' = "failed"
          /\ error' = "IndexError"
          /\ UNCHANGED <<self, operations, i>>
     ELSE /\ operations' = operations \o PreprocessOps(self)
          /\ self' = [self EXCEPT !.input_channels = self.layers[1]]
          /\ pc' = "loop"
          /\ i' = 1
          /\ UNCHANGED error
  /\ UNCHANGED <<args, init_linear, model, j, parameters, out>>

(* lines 78-86: next iteration of the stage loop appends the downsampling  *)
(* convolution                                                             *)
Downsample ==
  /\ pc = "loop"
  /\ i <= Len(self.layers)
  /\ operations' = Append(operations, DownsampleConv(self.input_channels, self.layers[i]))
  /\ j' = 0
  /\ pc' = "resblocks"
  /\ UNCHANGED <<args, self, init_linear, model, i, error, parameters, out>>

(* lines 89-96 *)
AddResBlock ==
  /\ pc = "resblocks"
  /\ j < self.num_res_blocks
  /\ operations' = Append(operations,
                          ResidualBlock(self.layers[i], self.use_batchnorm,
                                        self.use_preactivations))
  /\ j' = j + 1
  /\ UNCHANGED <<args, pc, self, init_linear, model, i, error, parameters, out>>

(* line 99 *)
UpdateBookKeeping ==
  /\ pc = "resblocks"
  /\ j >= self.num_res_blocks
  /\ self' = [self EXCEPT !.input_channels = BookKeeping(self.input_channels, self.layers[i])]
  /\ i' = i + 1
  /\ pc' = "loop"
  /\ UNCHANGED <<args, init_linear, operations, model, j, error, parameters, out>>

(* lines 101-110 *)
Finalize ==
  /\ pc = "loop"
  /\ i > Len(self.layers)
  /\ \/ /\ operations' = Append(operations, FinalConv(self))
        /\ model' = operations'
        /\ parameters' = parameters \o AllParamShapes(operations')
        /\ pc' = "built"
        /\ UNCHANGED error
     \/ /\ ZeroKernelMayRaise(FinalConv(self))
        /\ pc' = "failed"
        /\ error' = "ZeroDivisionError"
        /\ UNCHANGED <<operations, model, parameters>>
  /\ UNCHANGED <<args, self, init_linear, i, j, out>>

(* variant: the reshaped tensor's channel count kept on the instance *)
ForwardMut ==
  /\ pc = "built"
  /\ \E B \in 1..MaxBatch, unbatched \in BOOLEAN :
       out' = ForwardResult(self, init_linear[1], model, <<B, self.latent_dim>>, unbatched)
  /\ self' = [self EXCEPT !.input_channels = self.init_shape[1]]
  /\ UNCHANGED <<args, pc, init_linear, operations, model, i, j, error, parameters>>

(* lines 112-120: a call of forward on a (B, latent_dim) input; it binds   *)
(* only the local name batch                                               *)
Forward ==
  /\ pc = "built"
  /\ \E B \in 1..MaxBatch, unbatched \in BOOLEAN :
       out' = ForwardResult(self, init_linear[1], model, <<B, self.latent_dim>>, unbatched)
  /\ UNCHANGED <<args, pc, self, init_linear, operations, model, i, j, error, parameters>>

Next ==
  \/ StoreConfig
  \/ BuildLinear
  \/ Preprocess
  \/ Downsample
  \/ AddResBlock
  \/ UpdateBookKeeping
  \/ Finalize
  \/ Forward

Spec ==
  Init /\ [][Next]_vars
(* ======================= properties ======================= *)

Done ==
  pc \in {"built", "failed"}

Height ==
  args.init_shape[2]

Width ==
  args.init_shape[3]

NLayers ==
  Len(args.layers)

Divisible ==
  Height % Pow2(NLayers) = 0

IsConv(op) ==
  op.type = "Conv2d"

IsCore(op) ==
  op.type \in {"Conv2d", "ResidualBlock"}

NotNorm(op) ==
  op.type # "BatchNorm2d"

Core ==
  SelectSeq(model, IsCore)

Convs ==
  SelectSeq(model, IsConv)

(* index in Core of the downsampling convolution of stage k (1-based) *)
StageBase(k) ==
  2 + (k - 1) * (1 + args.num_res_blocks) + 1

Example ==
  [latent_dim |-> 8, init_shape |-> <<4, 8, 8>>, layers |-> <<16, 32>>,
   num_res_blocks |-> 2, use_batchnorm |-> TRUE, use_preactivations |-> TRUE]

(* C1: whenever height is divisible by 2^len(layers), construction         *)
(* succeeds and the last stage is a convolution with kernel size           *)
(* height / 2^len(layers) >= 1, stride 1, padding 0, in-channels the last  *)
(* stage width and out-channels latent_dim.                                *)
C1_DivisibleConstructs ==
  (Done /\ Divisible) =>
     /\ pc = "built"
     /\ LET last == model[Len(model)]
        IN  /\ last.type = "Conv2d"
            /\ last.kernel_size >= 1
            /\ last.kernel_size * Pow2(NLayers) = Height
            /\ last.stride = 1
            /\ last.padding = 0
            /\ last.in_channels = args.layers[NLayers]
            /\ last.out_channels = args.latent_dim

(* C2: whenever height is not divisible by 2^len(layers), construction     *)
(* ends in an error and no pipeline is produced.                           *)
C2_NonDivisibleFails ==
  (Done /\ ~Divisible) => (pc = "failed" /\ model = <<>>)

(* C3: for layers = [] construction succeeds and the pipeline is the       *)
(* preprocessing stage (two kernel-3 convolutions) followed directly by    *)
(* the final convolution, with no downsampling convolution and no          *)
(* residual block.                                                         *)
C3_EmptyLayersConstructs ==
  (Done /\ args.layers = <<>>) =>
     /\ pc = "built"
     /\ Len(Core) = 3
     /\ \A k \in 1..3 : Core[k].type = "Conv2d"
     /\ Core[1].kernel_size = 3
     /\ Core[2].kernel_size = 3
     /\ model[Len(model)] = Core[3]

(* C4: forward on an input of shape (1, latent_dim) returns a tensor of    *)
(* shape exactly (1, latent_dim).                                          *)
C4_ForwardShape ==
  (out.status # "none" /\ out.batch[1] = 1) =>
     (out.status = "ok" /\ out.shape = <<1, args.latent_dim>>)

(* C5: for non-empty layers the convolutions and residual blocks of the    *)
(* pipeline are, in order: 2 preprocessing convolutions (kernel 3, stride  *)
(* 1, padding 1); per stage one downsampling convolution (kernel 2, stride *)
(* 2, padding 0, out-channels layers[i]) followed by num_res_blocks        *)
(* residual blocks of layers[i] features; 1 final convolution. For the     *)
(* example configuration: 9 such stages and a final kernel of size 2.      *)
C5_StageSequence ==
  pc = "built" =>
     /\ Len(Core) = 2 + NLayers * (1 + args.num_res_blocks) + 1
     /\ \A k \in 1..2 :
          /\ Core[k].type = "Conv2d"
          /\ Core[k].kernel_size = 3 /\ Core[k].stride = 1 /\ Core[k].padding = 1
     /\ \A k \in 1..NLayers :
          /\ Core[StageBase(k)].type = "Conv2d"
          /\ Core[StageBase(k)].kernel_size = 2
          /\ Core[StageBase(k)].stride = 2
          /\ Core[StageBase(k)].padding = 0
          /\ Core[StageBase(k)].out_channels = args.layers[k]
          /\ \A r \in 1..args.num_res_blocks :
               /\ Core[StageBase(k) + r].type = "ResidualBlock"
               /\ Core[StageBase(k) + r].features = args.layers[k]
     /\ Core[Len(Core)].type = "Conv2d"
     /\ Core[Len(Core)] = model[Len(model)]
     /\ (args.latent_dim = 8 /\ args.init_shape = <<4, 8, 8>>
         /\ args.layers = <<16, 32>> /\ args.num_res_blocks = 2) =>
          /\ [k \in 1..Len(Core) |-> Core[k].type]
               = <<"Conv2d", "Conv2d", "Conv2d", "ResidualBlock", "ResidualBlock",
                   "Conv2d", "ResidualBlock", "ResidualBlock", "Conv2d">>
          /\ Core[9].kernel_size = 2

C5_Witness ==
  /\ pc = "built"
  /\ args = Example
  /\ Len(Core) = 9
(* ---- C6 ---- *)

WithBatchnorm(a, flag) ==
  [a EXCEPT !.use_batchnorm = flag]

(* the stage with the normalization flag handed to residual blocks erased *)
EraseFlag(op) ==
  [op EXCEPT !.use_batchnorm = FALSE]

EraseFlags(ops) ==
  [k \in 1..Len(ops) |-> EraseFlag(ops[k])]

(* the pipeline of the current configuration and of its twin that differs  *)
(* only in use_batchnorm                                                   *)
PipelineWith ==
  IF args.use_batchnorm THEN model ELSE Assemble(WithBatchnorm(args, TRUE))

PipelineWithout ==
  IF args.use_batchnorm THEN Assemble(WithBatchnorm(args, FALSE)) ELSE model

(* entries of a trace that belong to stages other than normalization *)
RECURSIVE KeepNonNorm(_, _)
KeepNonNorm(tr, ops) ==
  IF tr = <<>> THEN <<>>
  ELSE (IF NotNorm(Head(ops)) THEN <<Head(tr)>> ELSE <<>>)
       \o KeepNonNorm(Tail(tr), Tail(ops))

SpatialTrace ==
  LET tr == Trace(model, <<1>> \o args.init_shape, TRUE)
  IN  [k \in 1..Len(tr) |->
         IF tr[k] = <<>> THEN <<0, 0>> ELSE <<tr[k][3], tr[k][4]>>]

SpatialBefore(k) ==
  IF k = 1 THEN <<Height, Width>> ELSE SpatialTrace[k - 1]

Preserves(k) ==
  SpatialTrace[k] = SpatialBefore(k)

Halves(k) ==
  /\ 2 * SpatialTrace[k][1] = SpatialBefore(k)[1]
  /\ 2 * SpatialTrace[k][2] = SpatialBefore(k)[2]

SpatialLaw ==
  /\ Len(SpatialTrace) = Len(model)
  /\ \A k \in 1..Len(model) :
       IF model[k].type = "Conv2d" /\ model[k].stride = 2 THEN Halves(k)
       ELSE IF k = Len(model) THEN SpatialTrace[k] = <<1, 1>>
       ELSE Preserves(k)

(* C7 as stated: for every configuration with height divisible by          *)
(* 2^len(layers), preprocessing leaves (height, width) unchanged, every    *)
(* downsampling convolution halves both, and the final convolution leaves  *)
(* exactly 1x1, also when width differs from height.                       *)
C7_SpatialAnyWidth ==
  (pc = "built" /\ Divisible) => SpatialLaw

(* C7 amended: the same, for configurations whose width equals the height; *)
(* the final kernel is square with side height / 2^len(layers).            *)
C7_SpatialSquare ==
  (pc = "built" /\ Divisible /\ Width = Height) => SpatialLaw

C7_Witness ==
  /\ pc = "built"
  /\ Divisible
  /\ Width = Height
  /\ Height = 8
  /\ NLayers = 2
  /\ SpatialTrace[Len(model)] = <<1, 1>>

(* ---- C8 ---- *)

(* C8: every forward call on an input (B, latent_dim) with B > 1 ends in   *)
(* a shape error at the reshape to init_shape, before any pipeline stage   *)
(* has run and without a returned tensor, because B*channels*height*width  *)
(* differs from channels*height*width.                                     *)
C8_BatchedInputFailsAtView ==
  (out.status # "none" /\ out.batch[1] > 1) =>
     /\ out.status = "error"
     /\ out.step = "view"
     /\ out.ran = 0
     /\ out.shape = <<>>
     /\ out.batch[1] * Prod(self.init_shape) # Prod(self.init_shape)

C8_Witness ==
  /\ out.status = "error"
  /\ out.step = "view"
  /\ out.batch = <<2, args.latent_dim>>

(* ---- C9 ---- *)

(* C9: once construction has completed no step (in particular no forward   *)
(* call, returning or raising) changes the stage list, any stage's         *)
(* hyper-parameters, the stored configuration fields or the registered     *)
(* parameters.                                                             *)
C9_ForwardLeavesDecoder ==
  [][pc = "built" =>
       /\ pc' = "built"
       /\ self' = self
       /\ model' = model
       /\ operations' = operations
       /\ init_linear' = init_linear
       /\ parameters' = parameters]_vars

C9_Witness ==
  /\ pc = "built"
  /\ out.status = "ok"
  /\ self.input_channels = args.layers[NLayers]
  /\ self.input_channels # args.init_shape[1]

(* ---- C10 ---- *)

LastConvOut(ops) ==
  LET cs == SelectSeq(ops, IsConv) IN cs[Len(cs)].out_channels

====
